---- MODULE Spec2Model ----
(***************************************************************************)
(* GitHub Fork Management Tool (fork_management_tool.py).                  *)
(*                                                                         *)
(* The program is a single-threaded menu loop around three REST calls.     *)
(* The model follows the control flow of the script: module start-up,      *)
(* main()/handle_choice(), sync_all_forks(), sync_branches() and the       *)
(* request gateway api_request().  Every blocking point of the script (a   *)
(* read of standard input, an HTTP request) is one step; the remote        *)
(* service and the user are the environment and are drawn with \E.         *)
(*                                                                         *)
(* Python values are represented as follows:                               *)
(*   str            a TLA+ string; an f-string is the tuple of its pieces  *)
(*   None           the string None where the other values are strings,    *)
(*                  a result record with isNone = TRUE for api_request     *)
(*   list           a sequence                                             *)
(*   dict           a record; an optional key carries a kind field         *)
(*   typed line     the sequence of the code points of its characters      *)
(***************************************************************************)
EXTENDS Integers, Sequences, FiniteSets, TLC

\* ------------------------------------------------------------------ bounds
MaxForks == 2
MaxBranches == 2
MaxChoices == 2
MaxFailures == 2

\* --------------------------------------------------------- Python helpers
None == "<None>"

\* bool(s) for s a str or None
StrTruthy(s) == s # None /\ s # ""

\* Variant: `v is not None` in place of bool(v), true of every list.
Truthy_isNotNone(v) == TRUE

\* bool(v) for v a list or a dict: its length is not zero
Truthy(v) == DOMAIN v # {}

\* ----------------------------------------------------- the environment
\* os.getenv(name): None when the variable is unset, else its value.
EnvValues == {None, "", "set"}

\* full_name is unique among repositories and name among the branches of
\* one repository: the k-th fork of a list and the k-th branch of a list
\* carry the k-th name.  "u/r1" is both a fork and a possible upstream (a
\* fork of a fork).
ForkName(k) ==
    CASE k = 1 -> "u/r1" [] k = 2 -> "u/r2" [] k = 3 -> "u/r3" [] OTHER -> "u/r4"
BranchName(k) ==
    CASE k = 1 -> "main" [] k = 2 -> "dev" [] k = 3 -> "gh-pages" [] OTHER -> "next"
ForkNames == {ForkName(k) : k \in 1..MaxForks}
UpstreamNames == {"o/r1", "u/r1"}

\* The "parent" entry of a repository object of GET /user/repos:
\*   kind "absent": no "parent" key           kind "null": "parent": null
\*   kind "dict":   "parent": {...}; full_name is None when the key
\*                  "full_name" is absent or null, else the string.
Parents ==
    {[kind |-> "absent", full_name |-> None], [kind |-> "null", full_name |-> None]}
    \cup {[kind |-> "dict", full_name |-> n] : n \in {None, ""} \cup UpstreamNames}

Forks(k) ==
    {f \in [full_name : {ForkName(k)}, parent : Parents] :
        f.parent.full_name # f.full_name}

RECURSIVE ForkListsOfLen(_)
ForkListsOfLen(n) ==
    IF n = 0 THEN {<<>>}
    ELSE {Append(l, f) : l \in ForkListsOfLen(n - 1), f \in Forks(n)}

ForkLists == UNION {ForkListsOfLen(n) : n \in 0..MaxForks}
BranchLists == {[k \in 1..n |-> [name |-> BranchName(k)]] : n \in 0..MaxBranches}

\* What one HTTP exchange can end in (requests.request / raise_for_status /
\* response.json): a transport error, a non-2xx status, a body that is not
\* JSON, or a 2xx answer carrying the JSON value json.
FailureKinds == {"transport", "status", "decode"}
Failures == [kind : FailureKinds, json : {<<>>}]
Ok(json) == [kind |-> "ok", json |-> json]
ForksOutcomes == Failures \cup {Ok(l) : l \in ForkLists}
BranchesOutcomes == Failures \cup {Ok(l) : l \in BranchLists}
\* POST .../pulls answers 201 with the pull-request object.
PullsOutcomes == Failures \cup {Ok([number |-> 1])}

\* ---------------------------------------------------------------- int()
DigitChars == <<"0", "1", "2", "3", "4", "5", "6", "7", "8", "9">>

\* str(k) for 0 <= k <= 9
str(k) == DigitChars[k + 1]

\* ord(c) for the characters the typed lines below are written with
ord(c) ==
    CASE c = "\t" -> 9 [] c = " " -> 32 [] c = "+" -> 43 [] c = "-" -> 45
      [] c = "_" -> 95 [] c = "a" -> 97
      [] OTHER -> 48 + (CHOOSE d \in 0..9 : DigitChars[d + 1] = c)

\* The code points of a line written as a tuple of one-character strings.
CodePoints(s) == [k \in 1..Len(s) |-> ord(s[k])]

\* The characters int() ignores around a number: the white space of C for
\* an ASCII character (9-13 and 32; 28-31 are not among them), the Unicode
\* white space above 126.
WhiteSpace ==
    {9, 10, 11, 12, 13, 32, 133, 160, 5760} \cup (8192..8202)
    \cup {8232, 8233, 8239, 8287, 12288}

\* The code point of the digit zero of every Unicode decimal digit block
\* (Unicode 14.0); the ten digits of a block follow each other.
DecimalZeros ==
    {48, 1632, 1776, 1984, 2406, 2534, 2662, 2790, 2918, 3046, 3174, 3302,
     3430, 3558, 3664, 3792, 3872, 4160, 4240, 6112, 6160, 6470, 6608,
     6784, 6800, 6992, 7088, 7232, 7248, 42528, 43216, 43264, 43472, 43504,
     43600, 44016, 65296, 66720, 68912, 69734, 69872, 69942, 70096, 70384,
     70736, 70864, 71248, 71360, 71472, 71904, 72016, 72784, 73040, 73120,
     92768, 92864, 93008, 120782, 120792, 120802, 120812, 120822, 123200,
     123632, 125264, 130032}

IsDecimal(c) == \E z \in DecimalZeros : z <= c /\ c <= z + 9
DigitValue(c) == c - (CHOOSE z \in DecimalZeros : z <= c /\ c <= z + 9)

RECURSIVE Strip(_)
Strip(s) ==
    IF s # <<>> /\ Head(s) \in WhiteSpace THEN Strip(Tail(s))
    ELSE IF s # <<>> /\ s[Len(s)] \in WhiteSpace THEN Strip(SubSeq(s, 1, Len(s) - 1))
    ELSE s

\* The interpreter's default limit on the number of digits int() converts
\* (sys.get_int_max_str_digits()); the program does not change it.
MaxStrDigits == 4300

RECURSIVE DecimalValue(_)
DecimalValue(s) ==
    IF s = <<>> THEN 0
    ELSE 10 * DecimalValue(SubSeq(s, 1, Len(s) - 1)) + DigitValue(s[Len(s)])

\* int(line): surrounding white space is ignored; then an optional sign
\* ("+" 43 or "-" 45) and decimal digits of any script, in which single
\* underscores (95) may stand between two digits; anything else raises
\* ValueError.
int(line) ==
    LET t == Strip(line)
        signed == t # <<>> /\ Head(t) \in {43, 45}
        digits == IF signed THEN Tail(t) ELSE t
        valid ==
            /\ digits # <<>>
            /\ \A k \in 1..Len(digits) : IsDecimal(digits[k]) \/ digits[k] = 95
            /\ IsDecimal(digits[1])
            /\ IsDecimal(digits[Len(digits)])
            /\ \A k \in 1..(Len(digits) - 1) : ~(digits[k] = 95 /\ digits[k + 1] = 95)
            /\ Len(SelectSeq(digits, IsDecimal)) <= MaxStrDigits
        magnitude == DecimalValue(SelectSeq(digits, IsDecimal))
    IN  IF ~valid THEN [raised |-> "ValueError", value |-> 0]
        ELSE [raised |-> "none",
              value |-> IF signed /\ Head(t) = 45 THEN 0 - magnitude ELSE magnitude]

\* Lines the user can type at the "Select a fork" prompt: every digit up to
\* one past the longest list of forks, bare or after a minus sign, and
\* OtherLines: the empty line, " ", "-", "a", "1a", " 1" followed by a tab,
\* "+1", "1_0", "01", the Arabic-Indic digit one (1633) and TooManyDigits,
\* the digit one after MaxStrDigits zeros.
Numerals == {<<ord(str(d))>> : d \in 0..(MaxForks + 1)}
TooManyDigits == [k \in 1..(MaxStrDigits + 1) |-> IF k <= MaxStrDigits THEN 48 ELSE 49]
OtherLines ==
    {<<>>, <<1633>>, TooManyDigits}
    \cup {CodePoints(s) : s \in {<<" ">>, <<"-">>, <<"a">>, <<"1", "a">>, <<" ", "1", "\t">>,
                                  <<"+", "1">>, <<"1", "_", "0">>, <<"0", "1">>}}
Lines == {sign \o numeral : sign \in {<<>>, <<ord("-")>>}, numeral \in Numerals} \cup OtherLines
Choices == {"1", "2", "3", "4", "5", "6", ""}

\* forks[k] of a Python list: a negative k counts from the end.
ListIndex(list, k) ==
    IF 0 <= k /\ k < Len(list) THEN [raised |-> "none", pos |-> k + 1]
    ELSE IF k < 0 /\ 0 - k <= Len(list) THEN [raised |-> "none", pos |-> Len(list) + k + 1]
    ELSE [raised |-> "IndexError", pos |-> 0]

\* fork.get("parent", {}).get("full_name")
ParentFullName(fork) ==
    CASE fork.parent.kind = "absent" -> [raised |-> "none", value |-> None]
      [] fork.parent.kind = "null" -> [raised |-> "AttributeError", value |-> None]
      [] OTHER -> [raised |-> "none", value |-> fork.parent.full_name]

\* ------------------------------------------------------ program constants
GITHUB_API_URL == "https://api.github.com"

VARIABLES
    pc,            \* position of the single thread of control
    USERNAME,      \* module globals read from the environment at start-up
    TOKEN,
    exitCode,      \* exit status of the process once pc = "terminated"
    uncaught,      \* the exception that ended the process, "none" otherwise
    errorLog,      \* the records appended to error.log
    lastRequest,   \* how the HTTP exchange of the latest step ended, "none" without one
    trace,         \* what the latest handle_choice call read, requested and printed
    choices,       \* menu lines dispatched so far
    forks,         \* local of handle_choice / sync_all_forks
    i,             \* round of sync_all_forks' loop
    fork,          \* sync_branches' first argument
    original,      \* sync_branches' second argument
    original_branches,
    j,             \* position of sync_branches' loop
    caller         \* who called sync_branches

vars == <<pc, USERNAME, TOKEN, exitCode, uncaught, errorLog, lastRequest, trace,
          choices, forks, i, fork, original, original_branches, j, caller>>

locals == <<forks, i, fork, original, original_branches, j, caller>>

\* ------------------------------------------------------------ utilities
\* write_output(message, level): the line printed on standard output.
write_output(message, level) ==
    LET tag == CASE level = "info" -> "[INFO]"
                 [] level = "success" -> "[SUCCESS]"
                 [] level = "error" -> "[ERROR]"
                 [] level = "warning" -> "[WARNING]"
                 [] OTHER -> "[INFO]"
    IN  [ev |-> "print", tag |-> tag, message |-> message]

\* log_error(e): one record of level ERROR in error.log.
log_error(e) == <<[level |-> "ERROR", message |-> e]>>

\* Variant: the except clause returns None without logging.
api_request_unlogged(url, method, data, outcome) ==
    LET failed == outcome.kind # "ok"
        ret == IF failed THEN [isNone |-> TRUE, value |-> <<>>]
               ELSE [isNone |-> FALSE, value |-> outcome.json]
    IN  [call |-> [ev |-> "call", method |-> method, url |-> url,
                   headers |-> [Authorization |-> <<"token ", TOKEN>>],
                   data |-> data, ret |-> ret],
         ret |-> ret,
         logged |-> <<>>,
         exchange |-> outcome.kind]

\* api_request(url, method, data), the HTTP exchange ending in `outcome`:
\* the request sent, the value returned and the records logged.
api_request(url, method, data, outcome) ==
    LET failed == outcome.kind # "ok"
        ret == IF failed THEN [isNone |-> TRUE, value |-> <<>>]
               ELSE [isNone |-> FALSE, value |-> outcome.json]
    IN  [call |-> [ev |-> "call", method |-> method, url |-> url,
                   headers |-> [Authorization |-> <<"token ", TOKEN>>],
                   data |-> data, ret |-> ret],
         ret |-> ret,
         logged |-> IF failed THEN log_error("API request error") ELSE <<>>,
         exchange |-> outcome.kind]

\* `r or []` for r the value api_request returned
OrEmptyList(ret) == IF ~ret.isNone /\ Truthy(ret.value) THEN ret.value ELSE <<>>

get_forks(outcome) ==
    LET r == api_request(<<GITHUB_API_URL, "/user/repos?type=fork">>, "GET", <<>>, outcome)
    IN  [value |-> OrEmptyList(r.ret), req |-> r]

\* Variant: the last branch of the answer is dropped.
get_branches_short(repo_name, outcome) ==
    LET r == api_request(<<GITHUB_API_URL, "/repos/", repo_name, "/branches">>,
                         "GET", <<>>, outcome)
        all == OrEmptyList(r.ret)
    IN  [value |-> SubSeq(all, 1, Len(all) - 1), req |-> r]

get_branches(repo_name, outcome) ==
    LET r == api_request(<<GITHUB_API_URL, "/repos/", repo_name, "/branches">>,
                         "GET", <<>>, outcome)
    IN  [value |-> OrEmptyList(r.ret), req |-> r]

\* The payload and address of the pull request for one upstream branch.
pr_data(orig, branch_name) ==
    [head |-> <<orig, ":", branch_name>>,
     base |-> branch_name,
     title |-> <<"Sync branch ", branch_name>>,
     body |-> <<"Syncing branch ", branch_name, " from ", orig, ".">>]

\* Variant: the pull request is opened on the parent of the fork.
pr_url_upstream(repo) == <<GITHUB_API_URL, "/repos/", repo.parent.full_name, "/pulls">>

pr_url(repo) == <<GITHUB_API_URL, "/repos/", repo.full_name, "/pulls">>

\* for i, fork in enumerate(forks, 1): write_output(f"{i}. {fork['full_name']}", "success")
ListForks(list) ==
    [k \in 1..Len(list) |-> write_output(<<str(k), ". ", list[k].full_name>>, "success")]

ListBranches(list) ==
    [k \in 1..Len(list) |-> write_output(<<"- ", list[k].name>>, "success")]

\* Entries of the I/O record other than requests and printed lines: the
\* menu line read by main(), a line read by handle_choice, and the call of
\* and return from sync_branches(fork, original).
ChoiceEv(choice) == [ev |-> "choice", choice |-> choice]
InputEv(line) == [ev |-> "input", line |-> line]
EnterEv(repo, orig) == [ev |-> "enter", fork |-> repo, original |-> orig]
LeaveEv == [ev |-> "leave"]

NoFork == [full_name |-> None, parent |-> [kind |-> "absent", full_name |-> None]]

\* Variant: the list is walked from its end.
ForkAt_reversed(list, n) == list[Len(list) + 1 - n]

\* for fork in get_forks(): the fork of round n
ForkAt(list, n) == list[n]

\* ------------------------------------------------------------------ Init
Init ==
    /\ pc = "startup"
    /\ USERNAME = None
    /\ TOKEN = None
    /\ exitCode = 0
    /\ uncaught = "none"
    /\ errorLog = <<>>
    /\ lastRequest = "none"
    /\ trace = <<>>
    /\ choices = 0
    /\ forks = <<>>
    /\ i = 0
    /\ fork = NoFork
    /\ original = None
    /\ original_branches = <<>>
    /\ j = 0
    /\ caller = "none"

ClearLocals ==
    /\ forks' = <<>>
    /\ i' = 0
    /\ fork' = NoFork
    /\ original' = None
    /\ original_branches' = <<>>
    /\ j' = 0
    /\ caller' = "none"

\* An exception nobody catches: traceback, exit status 1.
Crash(exception) ==
    /\ pc' = "terminated"
    /\ exitCode' = 1
    /\ uncaught' = exception

\* --------------------------------------------------------- module start-up
\* Lines 35-41: read the credentials; without them print the guidance and
\* sys.exit(1).  os.path.join(None, ...) raises TypeError when USERPROFILE
\* is unset.
Startup ==
    /\ pc = "startup"
    /\ \E username \in EnvValues, token \in EnvValues, user_profile \in EnvValues :
        /\ USERNAME' = username
        /\ TOKEN' = token
        /\ IF ~StrTruthy(username) \/ ~StrTruthy(token)
           THEN IF user_profile = None
                THEN /\ Crash("TypeError")
                     /\ trace' = trace
                ELSE /\ pc' = "terminated"
                     /\ exitCode' = 1
                     /\ uncaught' = "none"
                     /\ trace' = <<[ev |-> "print", tag |-> "",
                                    message |-> <<"Error: Set GITHUB_USERNAME and GITHUB_TOKEN in your PowerShell profile at ",
                                                  user_profile, "Documents", "PowerShell",
                                                  "Microsoft.PowerShell_profile.ps1", ".">>]>>
           ELSE /\ pc' = "main"
                /\ UNCHANGED <<exitCode, uncaught, trace>>
    /\ UNCHANGED <<errorLog, lastRequest, choices, locals>>

\* ------------------------------------------------------------------ main
\* One round of main()'s loop up to the read of the choice (lines 159-161):
\* display_menu(), then input().
main ==
    /\ pc = "main"
    /\ pc' = "menu"
    /\ trace' = <<>>
    /\ lastRequest' = "none"
    /\ UNCHANGED <<USERNAME, TOKEN, exitCode, uncaught, errorLog, choices, locals>>

\* The exchanges the remote service can answer a request with; no more
\* than MaxFailures exchanges fail in one run of the program.
Answers(outcomes) ==
    IF Len(errorLog) < MaxFailures THEN outcomes ELSE {o \in outcomes : o.kind = "ok"}

\* The effect of one api_request call on the log and on the I/O record.
Requested(r) ==
    /\ errorLog' = errorLog \o r.logged
    /\ lastRequest' = r.exchange

\* handle_choice returns to main()'s loop.
ToMenu ==
    /\ pc' = "main"
    /\ ClearLocals
    /\ UNCHANGED <<USERNAME, TOKEN, exitCode, uncaught>>

\* ------------------------------------------------------- handle_choice
\* choice == "1" (lines 110-116)
Choice1 ==
    /\ pc = "menu"
    /\ choices < MaxChoices
    /\ \E outcome \in Answers(ForksOutcomes) :
        LET got == get_forks(outcome)
        IN  /\ Requested(got.req)
            /\ trace' = <<ChoiceEv("1"), got.req.call>>
                        \o (IF Truthy(got.value) THEN ListForks(got.value)
                            ELSE <<write_output(<<"No forks found.">>, "error")>>)
    /\ choices' = choices + 1
    /\ ToMenu

\* choice == "2" up to the prompt for the name of the fork (lines 118-119)
Choice2 ==
    /\ pc = "menu"
    /\ choices < MaxChoices
    /\ trace' = <<ChoiceEv("2")>>
    /\ choices' = choices + 1
    /\ pc' = "fork_name"
    /\ lastRequest' = "none"
    /\ UNCHANGED <<USERNAME, TOKEN, exitCode, uncaught, errorLog, locals>>

\* choice == "2" from the answer to the prompt on (lines 119-125)
ListBranchesOfFork ==
    /\ pc = "fork_name"
    /\ \E fork_name \in ForkNames \cup UpstreamNames, outcome \in Answers(BranchesOutcomes) :
        LET got == get_branches(fork_name, outcome)
        IN  /\ Requested(got.req)
            /\ trace' = trace \o <<InputEv(fork_name), got.req.call>>
                        \o (IF Truthy(got.value) THEN ListBranches(got.value)
                            ELSE <<write_output(<<"No branches found.">>, "error")>>)
    /\ ToMenu
    /\ UNCHANGED choices

\* choice == "3" up to the prompt (lines 127-137)
Choice3 ==
    /\ pc = "menu"
    /\ choices < MaxChoices
    /\ \E outcome \in Answers(ForksOutcomes) :
        LET got == get_forks(outcome)
        IN  /\ Requested(got.req)
            /\ IF ~Truthy(got.value)
               THEN /\ trace' = <<ChoiceEv("3"), got.req.call,
                                  write_output(<<"No forks found.">>, "error")>>
                    /\ ToMenu
               ELSE /\ trace' = <<ChoiceEv("3"), got.req.call>> \o ListForks(got.value)
                    /\ pc' = "select"
                    /\ forks' = got.value
                    /\ UNCHANGED <<USERNAME, TOKEN, exitCode, uncaught, i, fork, original,
                                   original_branches, j, caller>>
    /\ choices' = choices + 1

\* choice == "3" from the answer to the prompt on (lines 136-145).  Only
\* ValueError and IndexError are caught.
SelectFork ==
    /\ pc = "select"
    /\ \E line \in Lines :
        LET parsed == int(line)
            fork_index == parsed.value - 1
            at == ListIndex(forks, fork_index)
            selected == forks[at.pos]
            orig == ParentFullName(selected)
        IN  IF parsed.raised # "none" \/ at.raised # "none"
            THEN /\ trace' = trace \o <<InputEv(line),
                                        write_output(<<"Invalid selection.">>, "error")>>
                 /\ ToMenu
            ELSE IF orig.raised # "none"
            THEN /\ trace' = Append(trace, InputEv(line))
                 /\ Crash(orig.raised)
                 /\ UNCHANGED <<USERNAME, TOKEN, locals>>
            ELSE IF StrTruthy(orig.value)
            THEN /\ trace' = trace \o <<InputEv(line), EnterEv(selected, orig.value)>>
                 /\ pc' = "sync_branches"
                 /\ fork' = selected
                 /\ original' = orig.value
                 /\ caller' = "handle_choice"
                 /\ UNCHANGED <<USERNAME, TOKEN, exitCode, uncaught, forks, i,
                                original_branches, j>>
            ELSE /\ trace' = trace \o <<InputEv(line),
                                        write_output(<<"Original repository not found.">>, "warning")>>
                 /\ ToMenu
    /\ lastRequest' = "none"
    /\ UNCHANGED <<errorLog, choices>>

\* choice == "4": sync_all_forks() up to its loop (lines 147-148, 91-92)
Choice4 ==
    /\ pc = "menu"
    /\ choices < MaxChoices
    /\ \E outcome \in Answers(ForksOutcomes) :
        LET got == get_forks(outcome)
        IN  /\ Requested(got.req)
            /\ trace' = <<ChoiceEv("4"), got.req.call>>
            /\ IF got.value = <<>>
               THEN ToMenu
               ELSE /\ pc' = "sync_all_forks"
                    /\ forks' = got.value
                    /\ i' = 1
                    /\ UNCHANGED <<USERNAME, TOKEN, exitCode, uncaught, fork, original,
                                   original_branches, j, caller>>
    /\ choices' = choices + 1

\* choice == "5" (lines 150-152): sys.exit() exits with status 0.
Choice5 ==
    /\ pc = "menu"
    /\ trace' = <<ChoiceEv("5"), write_output(<<"Exiting GitHub Fork Management.">>, "success")>>
    /\ pc' = "terminated"
    /\ exitCode' = 0
    /\ lastRequest' = "none"
    /\ UNCHANGED <<USERNAME, TOKEN, uncaught, errorLog, choices, locals>>

\* any other line (lines 154-155)
InvalidChoice ==
    /\ pc = "menu"
    /\ choices < MaxChoices
    /\ \E choice \in Choices \ {"1", "2", "3", "4", "5"} :
        trace' = <<ChoiceEv(choice), write_output(<<"Invalid choice.">>, "error")>>
    /\ choices' = choices + 1
    /\ ToMenu
    /\ lastRequest' = "none"
    /\ UNCHANGED errorLog

\* input() at end of file (lines 161, 119 and 137) raises EOFError, which
\* nothing catches.
EndOfInput ==
    /\ pc \in {"menu", "fork_name", "select"}
    /\ trace' = IF pc = "menu" THEN <<>> ELSE trace
    /\ Crash("EOFError")
    /\ lastRequest' = "none"
    /\ UNCHANGED <<USERNAME, TOKEN, errorLog, choices, locals>>

\* ------------------------------------------------- sync_all_forks, sync_branches
\* sync_branches returns: to handle_choice, or to the next round of
\* sync_all_forks' loop.
Return ==
    IF caller = "sync_all_forks" /\ i < Len(forks)
    THEN /\ pc' = "sync_all_forks"
         /\ i' = i + 1
         /\ fork' = NoFork
         /\ original' = None
         /\ original_branches' = <<>>
         /\ j' = 0
         /\ caller' = "none"
         /\ UNCHANGED <<USERNAME, TOKEN, exitCode, uncaught, forks>>
    ELSE ToMenu

\* One round of sync_all_forks' loop up to the call of sync_branches
\* (lines 92-98).
SyncAllForks ==
    /\ pc = "sync_all_forks"
    /\ LET this == ForkAt(forks, i)
           orig == ParentFullName(this)
       IN  IF orig.raised # "none"
           THEN /\ trace' = trace
                /\ Crash(orig.raised)
                /\ UNCHANGED <<USERNAME, TOKEN, locals>>
           ELSE IF StrTruthy(orig.value)
           THEN /\ trace' = trace \o
                        <<write_output(<<"Syncing branches from ", orig.value, " to ",
                                         this.full_name, "...">>, "info"),
                          EnterEv(this, orig.value)>>
                /\ pc' = "sync_branches"
                /\ fork' = this
                /\ original' = orig.value
                /\ caller' = "sync_all_forks"
                /\ UNCHANGED <<USERNAME, TOKEN, exitCode, uncaught, forks, i,
                               original_branches, j>>
           ELSE /\ trace' = Append(trace,
                        write_output(<<"Original repository not found for ",
                                       this.full_name>>, "warning"))
                /\ IF i < Len(forks)
                   THEN /\ i' = i + 1
                        /\ UNCHANGED <<pc, USERNAME, TOKEN, exitCode, uncaught, forks,
                                       fork, original, original_branches, j, caller>>
                   ELSE ToMenu
    /\ lastRequest' = "none"
    /\ UNCHANGED <<errorLog, choices>>

\* sync_branches(fork, original) up to its loop (lines 71-74)
SyncBranches ==
    /\ pc = "sync_branches"
    /\ \E outcome \in Answers(BranchesOutcomes) :
        LET got == get_branches(original, outcome)
        IN  /\ Requested(got.req)
            /\ IF ~Truthy(got.value)
               THEN /\ trace' = trace \o <<got.req.call,
                                  write_output(<<"No branches found in original repo: ",
                                                 original>>, "warning"),
                                  LeaveEv>>
                    /\ Return
               ELSE /\ trace' = Append(trace, got.req.call)
                    /\ pc' = "create_pr"
                    /\ original_branches' = got.value
                    /\ j' = 1
                    /\ UNCHANGED <<USERNAME, TOKEN, exitCode, uncaught, forks, i, fork,
                                   original, caller>>
    /\ UNCHANGED choices

\* Variant: the loop is left at the first request that fails.
LoopStopsOnFailure(response) == j < Len(original_branches) /\ ~response.isNone

\* for branch in original_branches: the loop goes on to the next branch
\* whatever the response to the request of this round was.
LoopGoesOn(response) == j < Len(original_branches)

\* One round of sync_branches' loop (lines 76-89)
CreatePullRequest ==
    /\ pc = "create_pr"
    /\ \E outcome \in Answers(PullsOutcomes) :
        LET branch_name == original_branches[j].name
            r == api_request(pr_url(fork), "POST", pr_data(original, branch_name), outcome)
            response == r.ret
        IN  /\ Requested(r)
            /\ trace' = trace \o <<r.call,
                   IF ~response.isNone /\ Truthy(response.value)
                   THEN write_output(<<"Created PR for branch ", branch_name, " in ",
                                       fork.full_name>>, "success")
                   ELSE write_output(<<"Failed to create PR for branch ", branch_name>>,
                                     "error")>>
                   \o (IF LoopGoesOn(response) THEN <<>> ELSE <<LeaveEv>>)
            /\ IF LoopGoesOn(response)
               THEN /\ j' = j + 1
                    /\ UNCHANGED <<pc, USERNAME, TOKEN, exitCode, uncaught, forks, i, fork,
                                   original, original_branches, caller>>
               ELSE Return
    /\ UNCHANGED choices

Next ==
    \/ Startup
    \/ main
    \/ Choice1
    \/ Choice2
    \/ ListBranchesOfFork
    \/ Choice3
    \/ SelectFork
    \/ Choice4
    \/ Choice5
    \/ InvalidChoice
    \/ EndOfInput
    \/ SyncAllForks
    \/ SyncBranches
    \/ CreatePullRequest

Spec == Init /\ [][Next]_vars

\* =====================================================================
\* Reading the I/O record
\* =====================================================================
IsCall(e) == e.ev = "call"
IsPrint(e) == e.ev = "print"
IsPost(e) == e.ev = "call" /\ e.method = "POST"
IsGet(e) == e.ev = "call" /\ e.method = "GET"

Calls(t) == SelectSeq(t, IsCall)

\* The handler of menu line `choice` is running or has just finished.
Handling(choice) == Len(trace) >= 1 /\ trace[1].ev = "choice" /\ trace[1].choice = choice

\* handle_choice has returned to main()'s loop.
Returned == pc = "main" /\ trace # <<>>

\* The list get_forks() returned to the running handler (trace[2] is its request).
Listed == OrEmptyList(trace[2].ret)

CountPrints(t, tag, message) ==
    Cardinality({k \in 1..Len(t) : IsPrint(t[k]) /\ t[k].tag = tag /\ t[k].message = message})

\* Positions of the calls of sync_branches in the record, and for the call
\* at position k the position of its return (0 while it is running).
Entered == {k \in 1..Len(trace) : trace[k].ev = "enter"}
LeftAt(k) ==
    LET after == {m \in (k + 1)..Len(trace) : trace[m].ev = "leave"}
    IN  IF after = {} THEN 0 ELSE CHOOSE m \in after : \A n \in after : m <= n
\* What sync_branches did between its call at k and its return.
Body(k) == SubSeq(trace, k + 1, LeftAt(k) - 1)

StartupFailed == ~StrTruthy(USERNAME) \/ ~StrTruthy(TOKEN)

\* =====================================================================
\* C1  After menu line "3", a line that is not a number or a number
\* outside 1..len(forks) (0 and the negative numbers included) is answered
\* with "Invalid selection.", no request is sent, no fork is synchronized
\* and main()'s loop goes on.
\* =====================================================================
C1_BadIndexRejected ==
    \A k \in 1..Len(trace) :
        (Handling("3") /\ trace[k].ev = "input") =>
            LET typed == int(trace[k].line)
            IN  (typed.raised # "none" \/ typed.value < 1 \/ typed.value > Len(Listed)) =>
                    /\ pc = "main"
                    /\ Len(trace) = k + 1
                    /\ trace[k + 1] = write_output(<<"Invalid selection.">>, "error")

\* =====================================================================
\* C2  sync_all_forks calls sync_branches exactly once for every listed
\* fork whose parent.full_name is a non-empty string and never for any other
\* fork (no parent key, parent null, full_name absent or empty); each of the
\* latter gets exactly one warning and no request.
\* =====================================================================
C2_SyncOncePerResolvableFork ==
    (Handling("4") /\ pc \in {"main", "terminated"}) =>
        \A n \in 1..Len(Listed) :
            LET repo == Listed[n]
                syncs == {k \in Entered : trace[k].fork = repo}
                resolvable == repo.parent.kind = "dict" /\ StrTruthy(repo.parent.full_name)
            IN  IF resolvable
                THEN Cardinality(syncs) = 1
                ELSE /\ syncs = {}
                     /\ CountPrints(trace, "[WARNING]",
                            <<"Original repository not found for ", repo.full_name>>) = 1

\* =====================================================================
\* C5  When the user name or the token is missing or empty at start-up the
\* process ends at once with exit status 1 after printing the guidance,
\* without menu and without request, whatever the rest of the environment.
\* =====================================================================
C5_MissingCredentialsExitWithGuidance ==
    (pc # "startup" /\ StartupFailed) =>
        /\ pc = "terminated"
        /\ exitCode = 1
        /\ Len(trace) = 1
        /\ IsPrint(trace[1])
        /\ trace[1].message[1] =
              "Error: Set GITHUB_USERNAME and GITHUB_TOKEN in your PowerShell profile at "
        /\ errorLog = <<>>
        /\ choices = 0

\* =====================================================================
\* C7  After a successful start-up the process ends only through menu line
\* "5", then with exit status 0: no menu line and no outcome of a request
\* (failure, empty list, fork with or without parent) ends it otherwise.
\* The end of standard input is not a menu line and is left aside.
\* =====================================================================
C7_OnlyExitOptionTerminates ==
    (pc = "terminated" /\ ~StartupFailed /\ uncaught # "EOFError") =>
        /\ exitCode = 0
        /\ uncaught = "none"
        /\ Handling("5")

\* =====================================================================
\* C3  Every finished call sync_branches(fork, upstream) sent exactly one
\* branch-list request, for upstream and before anything else, and then
\* exactly N pull-request requests, N the number of branches that request
\* returned; with no branch returned (an empty list or a failed request) it
\* printed one warning and sent no pull-request request.
\* =====================================================================
BranchesReturned(call) == IF call.ret.isNone THEN <<>> ELSE call.ret.value

C3_OneListThenOnePullPerBranch ==
    \A k \in Entered :
        LeftAt(k) # 0 =>
            LET body == Body(k)
                N == Len(BranchesReturned(body[1]))
            IN  /\ Len(body) >= 1
                /\ IsGet(body[1])
                /\ body[1].url = <<GITHUB_API_URL, "/repos/", trace[k].original, "/branches">>
                /\ Len(SelectSeq(body, IsGet)) = 1
                /\ Len(SelectSeq(body, IsPost)) = N
                /\ N = 0 =>
                      Tail(body) = <<write_output(<<"No branches found in original repo: ",
                                                    trace[k].original>>, "warning")>>

\* A finished call of sync_branches whose branch list had at least two branches.
C3_Witness ==
    \E k \in Entered :
        /\ LeftAt(k) # 0
        /\ Len(BranchesReturned(trace[k + 1])) >= 2
        /\ Len(SelectSeq(Body(k), IsPost)) >= 2

\* =====================================================================
\* C4  In every finished call of sync_branches each returned branch was
\* attempted exactly once, in turn, whether or not earlier attempts failed,
\* and each attempt is followed by exactly one line about that branch:
\* [SUCCESS] if and only if the attempt returned a result, [ERROR] otherwise.
\* =====================================================================
C4_EveryBranchAttemptedAndReported ==
    \A k \in Entered :
        (LeftAt(k) # 0 /\ BranchesReturned(trace[k + 1]) # <<>>) =>
            LET body == Tail(Body(k))
                returned == BranchesReturned(trace[k + 1])
            IN  /\ Len(body) = 2 * Len(returned)
                /\ \A n \in 1..Len(returned) :
                      LET attempt == body[2 * n - 1]
                          report == body[2 * n]
                      IN  /\ IsPost(attempt)
                          /\ attempt.data.base = returned[n].name
                          /\ IsPrint(report)
                          /\ report.message[2] = returned[n].name
                          /\ report.tag = IF attempt.ret.isNone THEN "[ERROR]" ELSE "[SUCCESS]"

\* A finished call of sync_branches in which the first attempt failed and a
\* later one succeeded.
C4_Witness ==
    \E k \in Entered :
        /\ LeftAt(k) # 0
        /\ Len(Body(k)) >= 5
        /\ Body(k)[2].ret.isNone
        /\ Body(k)[3].tag = "[ERROR]"
        /\ ~Body(k)[4].ret.isNone
        /\ Body(k)[5].tag = "[SUCCESS]"

\* =====================================================================
\* C6  api_request never ends the process and tries once: a step sends at
\* most one request; when the exchange fails (transport error, status that
\* is not 2xx, body that is not JSON) the request returns None and exactly
\* one record is appended to the error log; when it succeeds it returns the
\* parsed JSON and the log is unchanged.  The log is only ever appended to.
\* =====================================================================
\* What the step added to the I/O record.
NewEvents ==
    IF pc = "menu" THEN trace'
    ELSE IF Len(trace') >= Len(trace) THEN SubSeq(trace', Len(trace) + 1, Len(trace'))
    ELSE <<>>

GatewayStep ==
    LET sent == SelectSeq(NewEvents, IsCall)
    IN  /\ Len(errorLog') >= Len(errorLog)
        /\ SubSeq(errorLog', 1, Len(errorLog)) = errorLog
        /\ Len(sent) <= 1
        /\ Len(sent) = 0 => errorLog' = errorLog
        /\ Len(sent) = 1 =>
              /\ uncaught' = "none"
              /\ pc' # "terminated"
              /\ lastRequest' \in FailureKinds \cup {"ok"}
              /\ lastRequest' \in FailureKinds =>
                    /\ sent[1].ret.isNone
                    /\ Len(errorLog') = Len(errorLog) + 1
                    /\ errorLog'[Len(errorLog')].level = "ERROR"
              /\ lastRequest' = "ok" =>
                    /\ ~sent[1].ret.isNone
                    /\ errorLog' = errorLog

C6_GatewayAbsorbsFailures == [][GatewayStep]_vars

\* An exchange whose body was not JSON has been logged and the program runs on.
C6_Witness ==
    /\ lastRequest = "decode"
    /\ Len(errorLog) >= 1
    /\ Len(Calls(trace)) >= 1
    /\ Calls(trace)[Len(Calls(trace))].ret.isNone
    /\ pc # "terminated"

\* =====================================================================
\* C8  get_forks and get_branches send one request per call and return an
\* empty list when it fails, so a failed request and an empty answer look
\* the same to the caller: menu lines "1" and "3" print "No forks found.",
\* menu line "2" prints "No branches found.", and sync_all_forks sends
\* nothing further and returns.
\* =====================================================================
NothingReturned(call) == call.ret.isNone \/ call.ret.value = <<>>

C8_FailureLooksEmpty ==
    /\ (Returned /\ Handling("1")) =>
          /\ Len(Calls(trace)) = 1
          /\ trace[2].url = <<GITHUB_API_URL, "/user/repos?type=fork">>
          /\ NothingReturned(trace[2]) =>
                trace = <<trace[1], trace[2], write_output(<<"No forks found.">>, "error")>>
    /\ (Returned /\ Handling("2")) =>
          /\ Len(Calls(trace)) = 1
          /\ trace[3].url = <<GITHUB_API_URL, "/repos/", trace[2].line, "/branches">>
          /\ NothingReturned(trace[3]) =>
                trace = <<trace[1], trace[2], trace[3],
                          write_output(<<"No branches found.">>, "error")>>
    /\ (Handling("3") /\ Len(trace) >= 2 /\ NothingReturned(trace[2])) =>
          /\ pc = "main"
          /\ trace = <<trace[1], trace[2], write_output(<<"No forks found.">>, "error")>>
    /\ (Handling("4") /\ Len(trace) >= 2 /\ NothingReturned(trace[2])) =>
          /\ pc = "main"
          /\ Len(trace) = 2

\* Menu line "1" answered "No forks found." after a failed request.
C8_Witness ==
    /\ Returned
    /\ Handling("1")
    /\ trace[2].ret.isNone
    /\ Len(errorLog) >= 1

\* =====================================================================
\* C9  sync_all_forks fetches the list of forks once and handles the forks
\* one after the other in the order of that list: everything requested or
\* printed for a fork comes before anything requested or printed for a
\* later fork, and the pull requests of one fork are requested in the order
\* of the branch list returned for it.
\* =====================================================================
\* The line that opens the handling of a fork in sync_all_forks, and the
\* fork it names.
OpensFork(e) ==
    /\ IsPrint(e)
    /\ e.message[1] \in {"Syncing branches from ", "Original repository not found for "}
NamedFork(e) == IF e.tag = "[INFO]" THEN e.message[4] ELSE e.message[2]

Opened == {k \in 1..Len(trace) : OpensFork(trace[k])}
\* The rank in the list of the fork being handled at position k of the record.
Rank(k) == Cardinality({s \in Opened : s <= k})

C9_ForksInCatalogOrder ==
    (Handling("4") /\ Len(trace) >= 2) =>
        LET opened == Opened
            listed == Listed
        IN  /\ Len(SelectSeq(trace, LAMBDA e : IsCall(e) /\ Len(e.url) = 2)) = 1
            /\ trace[2].url = <<GITHUB_API_URL, "/user/repos?type=fork">>
            /\ Returned => Cardinality(opened) = Len(listed)
            /\ \A k \in 3..Len(trace) :
                  LET rank == Cardinality({s \in opened : s <= k})
                      repo == listed[rank]
                      e == trace[k]
                  IN  /\ rank \in 1..Len(listed)
                      /\ OpensFork(e) => NamedFork(e) = repo.full_name
                      /\ (OpensFork(e) /\ e.tag = "[WARNING]") =>
                            (k = Len(trace) \/ OpensFork(trace[k + 1]))
                      /\ e.ev = "enter" => e.fork = repo
                      /\ IsGet(e) => e.url[3] = repo.parent.full_name
                      /\ IsPost(e) => e.url[3] = repo.full_name
            /\ \A k \in Entered :
                  LET left == LeftAt(k)
                      last == IF left = 0 THEN Len(trace) ELSE left
                      posts == SelectSeq(SubSeq(trace, k + 1, last), IsPost)
                      returned == BranchesReturned(trace[k + 1])
                  IN  \A n \in 1..Len(posts) : posts[n].data.base = returned[n].name

\* sync_all_forks has returned after synchronizing two forks, the first of
\* them with two branches.
C9_Witness ==
    /\ Handling("4")
    /\ Returned
    /\ Cardinality(Entered) >= 2
    /\ \E k \in Entered : Len(SelectSeq(Body(k), IsPost)) >= 2 /\ Rank(k) = 1

\* =====================================================================
\* C10  Every pull-request request of sync_branches(fork, upstream) is a
\* POST to the pulls address of the fork itself with head "<upstream>:<b>"
\* and base "<b>" for a branch b returned for upstream; the only requests
\* addressed to the upstream repository are GETs of its branches.  No POST
\* is sent outside sync_branches.
\* =====================================================================
C10_PullRequestsTargetTheFork ==
    LET entered == Entered
        left == [k \in entered |-> LeftAt(k)]
    IN  /\ \A m \in 1..Len(trace) :
              IsPost(trace[m]) =>
                  \E k \in entered : k < m /\ (left[k] = 0 \/ m < left[k])
        /\ \A k \in entered :
              LET last == IF left[k] = 0 THEN Len(trace) ELSE left[k]
                  repo == trace[k].fork
                  upstream == trace[k].original
                  returned == BranchesReturned(trace[k + 1])
              IN  \A m \in (k + 1)..last :
                      LET e == trace[m]
                      IN  /\ IsPost(e) =>
                                /\ e.url = <<GITHUB_API_URL, "/repos/", repo.full_name, "/pulls">>
                                /\ \E n \in 1..Len(returned) : e.data.base = returned[n].name
                                /\ e.data.head = <<upstream, ":", e.data.base>>
                          /\ (IsCall(e) /\ Len(e.url) = 4 /\ e.url[3] = upstream) =>
                                /\ e.method = "GET"
                                /\ e.url[4] = "/branches"

\* A pull request has been requested on a fork whose upstream is itself one
\* of the user's forks.
C10_Witness ==
    \E k \in Entered :
        /\ trace[k].original \in ForkNames
        /\ \E m \in (k + 1)..Len(trace) : IsPost(trace[m]) /\ ~trace[m].ret.isNone

====
